---- MODULE Spec2Model ----
(***************************************************************************)
(* docfub: the DocHub document service mounted as a filesystem.            *)
(*                                                                         *)
(* The model follows src/fs.py (Node, DocumentUpload, DochubFileSystem)    *)
(* and src/dochub_api.py (DochubAPI: the lru_cache around get_course and   *)
(* get_document, the cache_clear after a successful add_document).         *)
(*                                                                         *)
(* Strings are sequences of tokens: "notes.pdf" is <<"notes", ".", "pdf">>,*)
(* "cs101 Intro" is <<"cs101", " ", "Intro">>, so that str.format, '.'.join *)
(* and str.split('.', 1) are computed, not assumed.  A path is the sequence *)
(* of its components ("/" is <<>>).  Bytes are small integers, 0 being the  *)
(* byte BytesIO pads with.                                                 *)
(*                                                                         *)
(* A call ends with status "ok" or with the name of the exception that     *)
(* left it: "ENOENT" and "EINVAL" are the FuseOSError of wrap_errno, the   *)
(* other names ("ValueError", "AttributeError", "Exception", "HTTPError")  *)
(* are exceptions that reach the host as they are.  A request to the       *)
(* service may fail (raise_for_status).  The service is outside the        *)
(* repository: a successful post adds the document to the course, other    *)
(* users add documents, nobody removes one.  The lru_cache limit of 256    *)
(* courses is not reached with the two courses of the tree.                *)
(*                                                                         *)
(* In Spec, SpecIO, SpecRead and SpecMount calls are taken one at a time:   *)
(* a call runs to its end, out holds its outcome until the host takes it.  *)
(* SpecMount starts before the constructor.  SpecMT runs create, write and *)
(* release on threads, one operation on the mapping or on a buffer at a    *)
(* time.  SpecNode wraps any payload in a Node and asks it one thing.      *)
(***************************************************************************)
EXTENDS Integers, Sequences, FiniteSets, TLC

\* ------------------------------------------------------------------ bounds
\* longest buffer a write may produce
MaxLen == 2
\* longest data argument of one write
MaxData == 1
\* Pending Uploads registered at the same time
MaxPending == 1
\* documents the remote service holds, all courses together
MaxDocs == 2
\* largest size and offset argument of read
MaxRead == 4
\* threads the host dispatches calls on
MaxThreads == 2
\* calls dispatched on the threads, all together
MaxCalls == 4
\* DocumentUpload objects created by the calls on the threads
MaxObjects == 2

\* -------------------------------------------------------- program constants
S_IFREG == 32768
S_IFDIR == 16384

\* ------------------------------------------------------------------ strings
Dot == "."

Front(s) == SubSeq(s, 1, Len(s) - 1)

Last(s) == s[Len(s)]

\* "{slug} {name}".format(**serialized)
format_course(slug, name) == slug \o <<" ">> \o name

\* "{name}{file_type}".format(**serialized)
format_document(name, file_type) == name \o file_type

\* '.'.join([name, ext])
join_dot(name, ext) == name \o <<Dot>> \o ext

\* name.split('.', 1): the list of one or two pieces
str_split_dot(name) ==
    IF \E i \in 1..Len(name) : name[i] = Dot
    THEN LET i == CHOOSE k \in 1..Len(name) :
                     /\ name[k] = Dot
                     /\ \A j \in 1..(k - 1) : name[j] # Dot
         IN  <<SubSeq(name, 1, i - 1), SubSeq(name, i + 1, Len(name))>>
    ELSE <<name>>

\* os.path.split on a normalised absolute path: (head, tail); the root
\* splits into itself and the empty name
os_path_split(path) ==
    IF path = <<>> THEN <<(<<>>), (<<>>)>> ELSE <<Front(path), Last(path)>>

RECURSIVE breadcrumbs_loop(_, _, _)
breadcrumbs_loop(prefix, name, res) ==
    IF name # <<>>
    THEN LET s == os_path_split(prefix)
         IN  breadcrumbs_loop(s[1], s[2], <<name>> \o res)
    ELSE res

to_breadcrumbs(path) ==
    LET s == os_path_split(path) IN breadcrumbs_loop(s[1], s[2], <<>>)

\* ---------------------------------------------------------------- payloads
\* A serialized DocHub object: the set of keys it has, and their values.
\* original is no key of the payload: it is the file the service keeps for
\* a document and serves at /api/documents/{id}/original/.
Payload(keys, name, slug, file_type, id, file_size, children, courses, original) ==
    [keys |-> keys, name |-> name, slug |-> slug, file_type |-> file_type,
     id |-> id, file_size |-> file_size, children |-> children,
     courses |-> courses, original |-> original]

CategoryPayload(name, children, courses) ==
    Payload({"id", "name", "children", "courses"}, name, <<>>, <<>>, 0, 0,
            children, courses, <<>>)

CoursePayload(slug, name) ==
    Payload({"id", "name", "slug"}, name, slug, <<>>, 0, 0, <<>>, <<>>, <<>>)

DocumentPayload(id, name, ext, original) ==
    Payload({"id", "name", "file_type", "votes", "file_size"}, name, <<>>,
            <<Dot>> \o ext, id, Len(original), <<>>, <<>>, original)

SlugA == <<"cs101">>

SlugB == <<"cs102">>

Slugs == {SlugA, SlugB}

CourseA == CoursePayload(SlugA, <<"Intro">>)

CourseB == CoursePayload(SlugB, <<"Algo">>)

Labs == CategoryPayload(<<"Labs">>, <<>>, <<CourseB>>)

\* api.get_tree()[0]: the root, snapshotted at mount time
Tree == CategoryPayload(<<"Root">>, <<Labs>>, <<CourseA>>)

\* ------------------------------------------------------------------- paths
NameA == format_course(SlugA, <<"Intro">>)

NameB == format_course(SlugB, <<"Algo">>)

NotesPdf == <<"notes", Dot, "pdf">>

NewPdf == <<"new", Dot, "pdf">>

PRoot == <<>>

PCourseA == <<NameA>>

PCourseB == <<(<<"Labs">>), NameB>>

PNotes == <<NameA, NotesPdf>>

PNew == <<NameA, NewPdf>>

PNewB == <<(<<"Labs">>), NameB, NewPdf>>

PReadme == <<NameA, (<<"README">>)>>

PBelowDoc == <<NameA, NotesPdf, (<<"x">>)>>

PBelowNew == <<NameA, NewPdf, (<<"x", Dot, "txt">>)>>

PMissing == <<(<<"nope">>), (<<"a", Dot, "txt">>)>>

POther == <<NameA, (<<"other", Dot, "pdf">>)>>

\* the paths the host presents: the directories, a document, new files
\* (with and without a dot in the name, below a document, below a file
\* being created, below nothing)
Paths ==
    {PRoot, PCourseA, PCourseB, PNotes, PNew, PReadme, PBelowDoc, PBelowNew,
     PMissing}

\* a file being created in the course below Labs, and the course
UploadPaths == {PNewB, PCourseB}

Bytes == {1, 2}

RECURSIVE SeqsUpTo(_)
SeqsUpTo(n) ==
    IF n = 0 THEN {<<>>}
    ELSE LET shorter == SeqsUpTo(n - 1)
         IN  shorter \cup {Append(s, b) : s \in {t \in shorter : Len(t) = n - 1},
                                          b \in Bytes}

\* the data and offset arguments of write
Datas == SeqsUpTo(MaxData)

Offsets == 0..MaxLen

\* one write of one byte at the start
OneByte == {<<1>>}

AtStart == {0}

\* the ids of the documents of the service
DocIds == 1..MaxDocs

\* the size and offset arguments of read
ReadSizes == 0..MaxRead

ReadOffsets == 0..MaxRead

\* one read of the largest size
Largest == {MaxRead}

\* the root, a course, a document, a file being created
MountPaths == {PRoot, PCourseA, PNotes, PNew}

\* a document, a document another user adds, a directory
ReadPaths == {PNotes, POther, PCourseA}

\* the mode arguments of create: a regular file, and a mode without S_IFREG
Modes == {S_IFREG + 420, 420}

\* -------------------------------------------------------------------- state
VARIABLES
    uploads,      \* DochubFileSystem.uploads: path -> DocumentUpload
    courseCache,  \* the lru_cache of DochubAPI.get_course: slug -> response
    remote,       \* the service: slug -> the course's document_set
    out,          \* the last filesystem call: its arguments and its outcome
    prevKids,     \* history: slug -> names the last children() of the course
                  \*   returned, forgotten at a successful upload
    newDocs,      \* history: slug -> names uploaded since the last children()
    docCache,     \* the lru_cache of DochubAPI.get_document: id -> content
    mount,        \* DochubFileSystem(api): how far the constructor got, the
                  \*   root it keeps, the get_tree calls made
    mt,           \* calls dispatched on threads: the mapping, the
                  \*   DocumentUpload objects, each thread's position
    probe         \* a payload wrapped in a Node and what was asked of it

vars ==
    <<uploads, courseCache, remote, out, prevKids, newDocs, docCache, mount,
      mt, probe>>

\* the state of the calls taken one at a time
callVars == <<uploads, courseCache, remote, out, prevKids, newDocs, docCache>>

\* a cache slot, a remembered result: <<>> when empty, <<value>> when set
NotCached == <<>>

NoResult == <<>>

None == "None"

\* what a call returns, and the arguments out keeps of it: records of one
\* field each
NoRet == [none |-> TRUE]

IntRet(n) == [int |-> n]

NoArg == [none |-> TRUE]

\* ------------------------------------------------------------ dict (ordered)
\* A Python dict as the sequence of its items in insertion order.
DictSet(d, k, v) ==
    IF \E i \in 1..Len(d) : d[i].k = k
    THEN [i \in 1..Len(d) |-> IF d[i].k = k THEN [k |-> k, v |-> v] ELSE d[i]]
    ELSE Append(d, [k |-> k, v |-> v])

DictHas(d, k) == \E i \in 1..Len(d) : d[i].k = k

DictGet(d, k) == d[CHOOSE i \in 1..Len(d) : d[i].k = k].v

DictKeys(d) == [i \in 1..Len(d) |-> d[i].k]

\* -------------------------------------------------------------- DochubAPI
\* get_course without the lru_cache: every call requests the course page
get_course_uncached(slug, cache, rem, fetchOk) ==
    IF fetchOk
    THEN [status |-> "ok", r |-> [document_set |-> rem[slug]],
          cache |-> cache, served |-> "remote"]
    ELSE [status |-> "HTTPError", r |-> None, cache |-> cache,
          served |-> "failed"]

\* get_course(slug) under functools.lru_cache: a hit returns the stored
\* response without a request; a miss requests the course page, stores the
\* response if the request succeeded and raises (storing nothing) otherwise.
get_course(slug, cache, rem, fetchOk) ==
    IF cache[slug] # NotCached
    THEN [status |-> "ok", r |-> cache[slug][1], cache |-> cache,
          served |-> "cache"]
    ELSE IF fetchOk
    THEN LET r == [document_set |-> rem[slug]]
         IN  [status |-> "ok", r |-> r,
              cache |-> [cache EXCEPT ![slug] = <<r>>], served |-> "remote"]
    ELSE [status |-> "HTTPError", r |-> None, cache |-> cache,
          served |-> "failed"]

\* get_course.cache_clear()
cache_clear(cache) == [s \in DOMAIN cache |-> NotCached]

\* the file the service holds for the document of that id
Original(rem, doc_id) ==
    LET held == {d \in UNION {{rem[s][i] : i \in 1..Len(rem[s])} :
                                s \in DOMAIN rem} : d.id = doc_id}
    IN  (CHOOSE d \in held : TRUE).original

\* get_document(doc_id) under functools.lru_cache: the content of the
\* response, stored at the first successful request
get_document(doc_id, docs, rem, docOk) ==
    IF docs[doc_id] # NotCached
    THEN [status |-> "ok", content |-> docs[doc_id][1], docs |-> docs]
    ELSE IF docOk
    THEN LET content == Original(rem, doc_id)
         IN  [status |-> "ok", content |-> content,
              docs |-> [docs EXCEPT ![doc_id] = <<content>>]]
    ELSE [status |-> "HTTPError", content |-> <<>>, docs |-> docs]

\* ------------------------------------------------------------------- Node
is_category(serialized) ==
    "courses" \in serialized.keys /\ "children" \in serialized.keys

is_course(serialized) == "slug" \in serialized.keys

is_document(serialized) == "votes" \in serialized.keys

is_dir(serialized) == is_category(serialized) \/ is_course(serialized)

Node_name(serialized) ==
    IF is_course(serialized)
    THEN format_course(serialized.slug, serialized.name)
    ELSE IF is_document(serialized)
    THEN format_document(serialized.name, serialized.file_type)
    ELSE serialized.name

\* serialized.get('file_size', 4096)
Node_size(serialized) ==
    IF "file_size" \in serialized.keys THEN serialized.file_size ELSE 4096

\* the times and the owner are those of the mount and are left out
Node_getattr(serialized) ==
    [st_mode |-> IF is_dir(serialized) THEN 320 + S_IFDIR ELSE 256 + S_IFREG,
     st_nlink |-> 1,
     st_size |-> Node_size(serialized)]

\* {child.name: child for child in map(self.sub_node, children)}
RECURSIVE dict_of_children(_)
dict_of_children(children) ==
    IF children = <<>> THEN <<>>
    ELSE DictSet(dict_of_children(Front(children)),
                 Node_name(Last(children)), Last(children))

\* Node.children: the dict, the cache after the call, and the log of the
\* course fetches the call made
Node_children(serialized, cache, rem, fetchOk) ==
    IF ~is_dir(serialized)
    THEN [status |-> "ValueError", dict |-> <<>>, cache |-> cache,
          log |-> <<>>]
    ELSE IF is_category(serialized)
    THEN [status |-> "ok",
          dict |-> dict_of_children(serialized.children \o serialized.courses),
          cache |-> cache, log |-> <<>>]
    ELSE LET g == get_course(serialized.slug, cache, rem, fetchOk)
         IN  IF g.status # "ok"
             THEN [status |-> g.status, dict |-> <<>>, cache |-> g.cache,
                   log |-> <<[slug |-> serialized.slug, served |-> g.served,
                              names |-> <<>>]>>]
             ELSE LET d == dict_of_children(g.r.document_set)
                  IN  [status |-> "ok", dict |-> d, cache |-> g.cache,
                       log |-> <<[slug |-> serialized.slug,
                                  served |-> g.served,
                                  names |-> DictKeys(d)]>>]

\* Node.content
Node_content(serialized, docs, rem, docOk) ==
    IF ~is_document(serialized)
    THEN [status |-> "ValueError", content |-> <<>>, docs |-> docs]
    ELSE get_document(serialized.id, docs, rem, docOk)

\* Node.find(path)
RECURSIVE Node_find(_, _, _, _, _)
Node_find(serialized, path, cache, rem, fetchOk) ==
    IF Len(path) > 0
    THEN LET c == Node_children(serialized, cache, rem, fetchOk)
         IN  IF c.status # "ok"
             THEN [status |-> c.status, kind |-> None, obj |-> None,
                   cache |-> c.cache, log |-> c.log]
             ELSE IF ~DictHas(c.dict, path[1])
             THEN [status |-> "KeyError", kind |-> None, obj |-> None,
                   cache |-> c.cache, log |-> c.log]
             ELSE LET f == Node_find(DictGet(c.dict, path[1]), Tail(path),
                                     c.cache, rem, fetchOk)
                  IN  [f EXCEPT !.log = c.log \o f.log]
    ELSE [status |-> "ok", kind |-> "node", obj |-> serialized,
          cache |-> cache, log |-> <<>>]

\* ---------------------------------------------------------------- BytesIO
Max(a, b) == IF a >= b THEN a ELSE b

Zeros(n) == [i \in 1..n |-> 0]

\* io.seek(offset)
BytesIO_seek(io, offset) == [io EXCEPT !.pos = offset]

\* io.write(data) that never pads: data written past the end is appended
BytesIO_write_no_pad(io, data) ==
    IF Len(data) = 0 THEN io
    ELSE LET at == IF io.pos > Len(io.buf) THEN Len(io.buf) ELSE io.pos
             n == Max(Len(io.buf), at + Len(data))
         IN  [buf |-> [i \in 1..n |->
                          IF i > at /\ i <= at + Len(data)
                          THEN data[i - at] ELSE io.buf[i]],
              pos |-> at + Len(data)]

\* io.write(data): nothing for empty data; otherwise the gap between the
\* end and the cursor is filled with zero bytes, the data overwrites or
\* extends the buffer at the cursor and the cursor moves past it
BytesIO_write(io, data) ==
    IF Len(data) = 0 THEN io
    ELSE LET padded == IF io.pos > Len(io.buf)
                       THEN io.buf \o Zeros(io.pos - Len(io.buf))
                       ELSE io.buf
             n == Max(Len(padded), io.pos + Len(data))
         IN  [buf |-> [i \in 1..n |->
                          IF i > io.pos /\ i <= io.pos + Len(data)
                          THEN data[i - io.pos] ELSE padded[i]],
              pos |-> io.pos + Len(data)]

\* io.read(): what the request body is made of, from the cursor to the end
BytesIO_read(io) == SubSeq(io.buf, io.pos + 1, Len(io.buf))

\* --------------------------------------------------------- DocumentUpload
\* DocumentUpload(fs, course, name): name.split('.', 1) must give two pieces.
\* written and sequential are history: the concatenation of the data of the
\* writes so far, kept while every write came at the end of the buffer.
DocumentUpload_init(course, name) ==
    LET pieces == str_split_dot(name)
    IN  IF Len(pieces) # 2
        THEN [status |-> "ValueError", upload |-> None]
        ELSE [status |-> "ok",
              upload |-> [course |-> course, name |-> pieces[1],
                          ext |-> pieces[2],
                          io |-> [buf |-> <<>>, pos |-> 0],
                          written |-> <<>>, sequential |-> TRUE]]

\* DocumentUpload.size: io.tell()
DocumentUpload_size(upload) == upload.io.pos

DocumentUpload_getattr(upload) ==
    [st_mode |-> 128 + S_IFREG,
     st_nlink |-> 1,
     st_size |-> DocumentUpload_size(upload)]

\* the id the service gives its next document
NextId(rem) ==
    LET RECURSIVE Count(_)
        Count(S) == IF S = {} THEN 0
                    ELSE LET s == CHOOSE x \in S : TRUE
                         IN  Len(rem[s]) + Count(S \ {s})
    IN  1 + Count(DOMAIN rem)

\* the service stores a posted document in the course's document_set
RemoteStore(rem, course_slug, name, filename, body) ==
    [rem EXCEPT ![course_slug] =
        Append(@, DocumentPayload(NextId(rem), name,
                                  SubSeq(filename, Len(name) + 2, Len(filename)),
                                  body))]

\* add_document without the cache_clear after the post
add_document_no_evict(cache, rem, course_slug, name, filename, file, postOk) ==
    LET body == BytesIO_read(file)
        post == [course |-> course_slug, name |-> name,
                 filename |-> filename, body |-> body, ok |-> postOk]
    IN  IF ~postOk
        THEN [status |-> "HTTPError", cache |-> cache, rem |-> rem,
              post |-> post]
        ELSE [status |-> "ok", cache |-> cache,
              rem |-> RemoteStore(rem, course_slug, name, filename, body),
              post |-> post]

\* add_document that evicts the posted course only
add_document_evict_one(cache, rem, course_slug, name, filename, file, postOk) ==
    LET body == BytesIO_read(file)
        post == [course |-> course_slug, name |-> name,
                 filename |-> filename, body |-> body, ok |-> postOk]
    IN  IF ~postOk
        THEN [status |-> "HTTPError", cache |-> cache, rem |-> rem,
              post |-> post]
        ELSE [status |-> "ok",
              cache |-> [cache EXCEPT ![course_slug] = NotCached],
              rem |-> RemoteStore(rem, course_slug, name, filename, body),
              post |-> post]

\* DochubAPI.add_document: post; a failed post raises and leaves the cache;
\* a successful one clears the whole get_course cache
add_document(cache, rem, course_slug, name, filename, file, postOk) ==
    LET body == BytesIO_read(file)
        post == [course |-> course_slug, name |-> name,
                 filename |-> filename, body |-> body, ok |-> postOk]
    IN  IF ~postOk
        THEN [status |-> "HTTPError", cache |-> cache, rem |-> rem,
              post |-> post]
        ELSE [status |-> "ok", cache |-> cache_clear(cache),
              rem |-> RemoteStore(rem, course_slug, name, filename, body),
              post |-> post]

\* do_upload without the io.seek(0): the body is read from the cursor
do_upload_no_seek(upload, cache, rem, postOk) ==
    add_document(cache, rem, upload.course.slug, upload.name,
                 join_dot(upload.name, upload.ext), upload.io, postOk)

\* DocumentUpload.do_upload
do_upload(upload, cache, rem, postOk) ==
    add_document(cache, rem, upload.course.slug, upload.name,
                 join_dot(upload.name, upload.ext),
                 BytesIO_seek(upload.io, 0), postOk)

\* -------------------------------------------------------- DochubFileSystem
\* What a call leaves behind: how it ended (status "ok", or the exception
\* that left it), what it returned, the mapping, the cache and the service
\* after it, the posts it made and the log of its course fetches.
Outcome(status, ret, ups, cache, rem, posts, log) ==
    [status |-> status, ret |-> ret, uploads |-> ups, cache |-> cache,
     rem |-> rem, posts |-> posts, log |-> log]

\* wrap_errno: KeyError becomes FuseOSError(ENOENT), ValueError becomes
\* FuseOSError(EINVAL), anything else passes
wrap_errno(status) ==
    IF status = "KeyError" THEN "ENOENT"
    ELSE IF status = "ValueError" THEN "EINVAL"
    ELSE status

\* DochubFileSystem.find_path, under @wrap_errno
find_path(path, ups, cache, rem, fetchOk) ==
    IF path \in DOMAIN ups
    THEN [status |-> "ok", kind |-> "upload", obj |-> ups[path],
          cache |-> cache, log |-> <<>>]
    ELSE LET f == Node_find(Tree, to_breadcrumbs(path), cache, rem, fetchOk)
         IN  [f EXCEPT !.status = wrap_errno(f.status)]

\* DochubFileSystem.getattr
getattr(path, ups, cache, rem, fetchOk) ==
    LET f == find_path(path, ups, cache, rem, fetchOk)
    IN  IF f.status # "ok"
        THEN Outcome(f.status, NoRet, ups, f.cache, rem, <<>>, f.log)
        ELSE Outcome("ok",
                     [attrs |-> IF f.kind = "upload"
                                THEN DocumentUpload_getattr(f.obj)
                                ELSE Node_getattr(f.obj)],
                     ups, f.cache, rem, <<>>, f.log)

\* DochubFileSystem.readdir: a DocumentUpload has no children attribute, and
\* the ValueError of Node.children is raised outside find_path
readdir(path, ups, cache, rem, fetchOk) ==
    LET f == find_path(path, ups, cache, rem, fetchOk)
    IN  IF f.status # "ok"
        THEN Outcome(f.status, NoRet, ups, f.cache, rem, <<>>, f.log)
        ELSE IF f.kind = "upload"
        THEN Outcome("AttributeError", NoRet, ups, f.cache, rem, <<>>, f.log)
        ELSE LET c == Node_children(f.obj, f.cache, rem, fetchOk)
             IN  IF c.status # "ok"
                 THEN Outcome(c.status, NoRet, ups, c.cache, rem, <<>>,
                              f.log \o c.log)
                 ELSE Outcome("ok",
                              [names |-> <<(<<Dot>>), (<<Dot, Dot>>)>>
                                         \o DictKeys(c.dict)],
                              ups, c.cache, rem, <<>>, f.log \o c.log)

Min(a, b) == IF a <= b THEN a ELSE b

\* a slice that fills what lies past the end with zero bytes
py_slice_padded(s, lo, hi) ==
    [i \in 1..(hi - lo) |-> IF lo + i <= Len(s) THEN s[lo + i] ELSE 0]

\* s[lo:hi] for lo, hi >= 0: both indices are clamped to len(s)
py_slice(s, lo, hi) ==
    LET start == Min(lo, Len(s))
        stop == Min(hi, Len(s))
    IN  IF start < stop THEN SubSeq(s, start + 1, stop) ELSE <<>>

\* what read leaves behind: an Outcome with no post, and the get_document
\* cache after the call
OutcomeOfRead(status, ret, ups, cache, rem, log, docs) ==
    [status |-> status, ret |-> ret, uploads |-> ups, cache |-> cache,
     rem |-> rem, posts |-> <<>>, log |-> log, docs |-> docs]

\* read, line 199: node.content[offset:offset+size] for the node found.  A
\* DocumentUpload has no content attribute, and the ValueError of
\* Node.content is raised outside find_path.
read_node(f, size, offset, ups, docs, rem, docOk) ==
    IF f.status # "ok"
    THEN OutcomeOfRead(f.status, NoRet, ups, f.cache, rem, f.log, docs)
    ELSE IF f.kind = "upload"
    THEN OutcomeOfRead("AttributeError", NoRet, ups, f.cache, rem, f.log,
                       docs)
    ELSE LET c == Node_content(f.obj, docs, rem, docOk)
         IN  IF c.status # "ok"
             THEN OutcomeOfRead(c.status, NoRet, ups, f.cache, rem, f.log,
                                c.docs)
             ELSE OutcomeOfRead("ok",
                                [bytes |-> py_slice(c.content, offset,
                                                    offset + size)],
                                ups, f.cache, rem, f.log, c.docs)

\* DochubFileSystem.read: node = self.find_path(path), then line 199 (the
\* node is found once, then used)
read(path, size, offset, ups, cache, docs, rem, fetchOk, docOk) ==
    CHOOSE o \in {read_node(node, size, offset, ups, docs, rem, docOk) :
                     node \in {find_path(path, ups, cache, rem, fetchOk)}} :
        TRUE

\* mode & stat.S_IFREG
HasIFREG(mode) == (mode \div S_IFREG) % 2 = 1

\* self.uploads[path] = upload
SetUpload(ups, path, upload) ==
    [p \in DOMAIN ups \cup {path} |-> IF p = path THEN upload ELSE ups[p]]

\* a pop that leaves the entry in the mapping
PopUpload_keeps_entry(ups, path) == ups

\* self.uploads.pop(path)
PopUpload(ups, path) == [p \in DOMAIN ups \ {path} |-> ups[p]]

\* create that leaves a Pending Upload already registered at the path
create_keeps_existing(path, mode, ups, cache, rem, fetchOk) ==
    LET s == os_path_split(path)
        parent == find_path(s[1], ups, cache, rem, fetchOk)
        u == DocumentUpload_init(parent.obj, s[2])
    IN  IF parent.status # "ok"
        THEN Outcome(parent.status, NoRet, ups, parent.cache, rem, <<>>,
                     parent.log)
        ELSE IF parent.kind = "upload"
        THEN Outcome("AttributeError", NoRet, ups, parent.cache, rem, <<>>,
                     parent.log)
        ELSE IF ~is_course(parent.obj)
        THEN Outcome("Exception", NoRet, ups, parent.cache, rem, <<>>,
                     parent.log)
        ELSE IF HasIFREG(mode) /\ u.status # "ok"
        THEN Outcome(u.status, NoRet, ups, parent.cache, rem, <<>>,
                     parent.log)
        ELSE Outcome("ok", IntRet(3),
                     IF HasIFREG(mode) /\ path \notin DOMAIN ups
                     THEN SetUpload(ups, path, u.upload) ELSE ups,
                     parent.cache, rem, <<>>, parent.log)

\* DochubFileSystem.create
create(path, mode, ups, cache, rem, fetchOk) ==
    LET s == os_path_split(path)
        directory == s[1]
        name == s[2]
        parent == find_path(directory, ups, cache, rem, fetchOk)
    IN  IF parent.status # "ok"
        THEN Outcome(parent.status, NoRet, ups, parent.cache, rem, <<>>,
                     parent.log)
        ELSE IF parent.kind = "upload"
        THEN Outcome("AttributeError", NoRet, ups, parent.cache, rem, <<>>,
                     parent.log)
        ELSE IF ~is_course(parent.obj)
        THEN Outcome("Exception", NoRet, ups, parent.cache, rem, <<>>,
                     parent.log)
        ELSE IF HasIFREG(mode)
        THEN LET u == DocumentUpload_init(parent.obj, name)
             IN  IF u.status # "ok"
                 THEN Outcome(u.status, NoRet, ups, parent.cache, rem, <<>>,
                              parent.log)
                 ELSE Outcome("ok", IntRet(3), SetUpload(ups, path, u.upload),
                              parent.cache, rem, <<>>, parent.log)
        ELSE Outcome("ok", IntRet(3), ups, parent.cache, rem, <<>>, parent.log)

\* release that uploads first and pops the entry once the upload returned
release_pop_after_upload(path, ups, cache, rem, postOk) ==
    IF path \in DOMAIN ups /\ DocumentUpload_size(ups[path]) > 0
    THEN LET d == do_upload(ups[path], cache, rem, postOk)
         IN  Outcome(d.status, NoRet,
                     IF d.status = "ok" THEN PopUpload(ups, path) ELSE ups,
                     d.cache, d.rem, <<d.post>>, <<>>)
    ELSE Outcome("ok", NoRet, ups, cache, rem, <<>>, <<>>)

\* DochubFileSystem.release: the entry is popped, then uploaded
release(path, ups, cache, rem, postOk) ==
    IF path \in DOMAIN ups /\ DocumentUpload_size(ups[path]) > 0
    THEN LET upload == ups[path]
             d == do_upload(upload, cache, rem, postOk)
         IN  Outcome(d.status, NoRet, PopUpload(ups, path), d.cache, d.rem,
                     <<d.post>>, <<>>)
    ELSE Outcome("ok", NoRet, ups, cache, rem, <<>>, <<>>)

\* write that returns the size of the buffer after the write, and that
\* raises for a path with no Pending Upload
write_returns_size(path, data, offset, ups, cache, rem) ==
    IF path \in DOMAIN ups
    THEN LET io2 == BytesIO_write(BytesIO_seek(ups[path].io, offset), data)
         IN  Outcome("ok", IntRet(io2.pos),
                     [ups EXCEPT ![path].io = io2], cache, rem, <<>>, <<>>)
    ELSE Outcome("EINVAL", NoRet, ups, cache, rem, <<>>, <<>>)

\* DochubFileSystem.write
write(path, data, offset, ups, cache, rem) ==
    IF path \in DOMAIN ups
    THEN LET upload == ups[path]
             io1 == IF offset # DocumentUpload_size(upload)
                    THEN BytesIO_seek(upload.io, offset)
                    ELSE upload.io
             io2 == BytesIO_write(io1, data)
         IN  Outcome("ok", IntRet(Len(data)),
                     [ups EXCEPT ![path].io = io2], cache, rem, <<>>, <<>>)
    ELSE Outcome("ok", IntRet(-1), ups, cache, rem, <<>>, <<>>)

\* ----------------------------------------------------- what a path names
\* The document_set a course shows at this instant: the cached response if
\* the cache holds one, the service's otherwise.
View(cache, rem) ==
    [s \in Slugs |-> IF cache[s] # NotCached THEN cache[s][1].document_set
                     ELSE rem[s]]

Kids(serialized, view) ==
    IF is_category(serialized)
    THEN serialized.children \o serialized.courses
    ELSE IF is_course(serialized) THEN view[serialized.slug]
    ELSE <<>>

\* The node a walk of the tree reaches at path: <<node>>, or <<>> if a
\* component is no child of the directory before it.
RECURSIVE NodeAt(_, _)
NodeAt(path, view) ==
    IF path = <<>> THEN <<Tree>>
    ELSE LET p == NodeAt(Front(path), view)
         IN  IF p = <<>> THEN <<>>
             ELSE LET ks == Kids(p[1], view)
                      at == {i \in 1..Len(ks) : Node_name(ks[i]) = Last(path)}
                  IN  IF at = {} THEN <<>>
                      ELSE <<ks[CHOOSE i \in at : \A j \in at : j <= i]>>

KindOf(serialized) ==
    IF is_category(serialized) THEN "category"
    ELSE IF is_course(serialized) THEN "course"
    ELSE "document"

\* what path names before a call: a Pending Upload first, else a node
TargetOf(path, ups, cache, rem) ==
    IF path \in DOMAIN ups THEN "upload"
    ELSE LET n == NodeAt(path, View(cache, rem))
         IN  IF n = <<>> THEN "none" ELSE KindOf(n[1])

\* content(D) for the document path names before a call: what the
\* get_document cache holds for its id, else the file the service holds
ContentOf(path, ups, cache, docs, rem) ==
    IF TargetOf(path, ups, cache, rem) # "document" THEN <<>>
    ELSE LET d == NodeAt(path, View(cache, rem))[1]
         IN  IF docs[d.id] # NotCached THEN docs[d.id][1]
             ELSE Original(rem, d.id)

\* ------------------------------------------------------------------ mount
\* api.get_tree(): the request may fail, and the service may answer with
\* no root entry, with one, or with two
TreeResponses == {<<>>, <<Tree>>, <<Tree, Labs>>}

\* before DochubFileSystem(api) runs.  fetches counts the get_tree calls;
\* ok and entries are history: whether the request succeeded, and the
\* number of entries of the answer.
Mounting ==
    [state |-> "mounting", tree |-> <<>>, fetches |-> 0, ok |-> FALSE,
     entries |-> 0]

\* the constructor without its assert: tree[0] raises for an empty answer,
\* and is kept as the root whatever follows it
DochubFileSystem_init_first_entry(m, tree, treeOk) ==
    IF ~treeOk
    THEN [state |-> "aborted", tree |-> <<>>, fetches |-> m.fetches + 1,
          ok |-> treeOk, entries |-> 0]
    ELSE IF Len(tree) = 0
    THEN [state |-> "aborted", tree |-> <<>>, fetches |-> m.fetches + 1,
          ok |-> treeOk, entries |-> Len(tree)]
    ELSE [state |-> "mounted", tree |-> <<tree[1]>>,
          fetches |-> m.fetches + 1, ok |-> treeOk, entries |-> Len(tree)]

\* DochubFileSystem.__init__: get_tree raises if the request failed, the
\* assert raises unless the answer has one entry; either way the FUSE(...)
\* of docfub.py is never reached
DochubFileSystem_init(m, tree, treeOk) ==
    IF ~treeOk
    THEN [state |-> "aborted", tree |-> <<>>, fetches |-> m.fetches + 1,
          ok |-> treeOk, entries |-> 0]
    ELSE IF Len(tree) # 1
    THEN [state |-> "aborted", tree |-> <<>>, fetches |-> m.fetches + 1,
          ok |-> treeOk, entries |-> Len(tree)]
    ELSE [state |-> "mounted", tree |-> <<tree[1]>>,
          fetches |-> m.fetches + 1, ok |-> treeOk, entries |-> Len(tree)]

\* after DochubFileSystem(api), the service having answered with the root
Mounted == DochubFileSystem_init(Mounting, <<Tree>>, TRUE)

\* ------------------------------------------------------------------ calls
\* out between two calls
Idle ==
    [op |-> "idle", path |-> <<>>, arg |-> NoArg, status |-> "ok",
     ret |-> NoRet, posts |-> <<>>, kids |-> <<>>, had |-> FALSE,
     size |-> 0, target |-> "category", parent |-> "category",
     changed |-> {}, content |-> <<>>, buf |-> <<>>, cached |-> {}]

\* One call of the host, run to its end: the state after it, and its
\* record in out.  Only read returns a get_document cache (docs): no other
\* call reaches get_document.  No call reaches get_tree.
Finish(op, path, arg, res) ==
    LET uploaded == \E i \in 1..Len(res.posts) : res.posts[i].ok
        listed(s) == {i \in 1..Len(res.log) :
                         res.log[i].slug = s /\ res.log[i].served # "failed"}
    IN  /\ out.op = "idle"
        /\ mount.state = "mounted"
        /\ docCache' = IF "docs" \in DOMAIN res THEN res.docs ELSE docCache
        /\ uploads' = res.uploads
        /\ courseCache' = res.cache
        /\ remote' = res.rem
        /\ out' = [op |-> op, path |-> path, arg |-> arg,
                   status |-> res.status, ret |-> res.ret,
                   posts |-> res.posts,
                   kids |-> [i \in 1..Len(res.log) |->
                               [slug |-> res.log[i].slug,
                                served |-> res.log[i].served,
                                names |-> res.log[i].names,
                                prev |-> prevKids[res.log[i].slug],
                                fresh |-> newDocs[res.log[i].slug]]],
                   had |-> path \in DOMAIN uploads,
                   size |-> IF path \in DOMAIN uploads
                            THEN DocumentUpload_size(uploads[path]) ELSE 0,
                   target |-> TargetOf(path, uploads, courseCache, remote),
                   parent |-> TargetOf(os_path_split(path)[1], uploads,
                                       courseCache, remote),
                   changed |-> {v \in {"uploads", "cache", "remote", "docs"} :
                                  \/ v = "uploads" /\ res.uploads # uploads
                                  \/ v = "cache" /\ res.cache # courseCache
                                  \/ v = "remote" /\ res.rem # remote
                                  \/ v = "docs" /\ docCache' # docCache},
                   content |-> ContentOf(path, uploads, courseCache, docCache,
                                         remote),
                   buf |-> IF path \in DOMAIN uploads
                           THEN uploads[path].io.buf ELSE <<>>,
                   cached |-> {s \in Slugs : courseCache[s] # NotCached}]
        /\ UNCHANGED <<mount, mt, probe>>
        /\ prevKids' = [s \in Slugs |->
                          IF uploaded THEN NoResult
                          ELSE IF listed(s) # {}
                          THEN <<res.log[CHOOSE i \in listed(s) : TRUE].names>>
                          ELSE prevKids[s]]
        /\ newDocs' = [s \in Slugs |->
                         (IF listed(s) # {} THEN {} ELSE newDocs[s])
                         \cup {res.posts[i].filename :
                                 i \in {j \in 1..Len(res.posts) :
                                          /\ res.posts[j].ok
                                          /\ res.posts[j].course = s}}]

GetAttr(P) ==
    \E path \in P, fetchOk \in BOOLEAN :
        Finish("getattr", path, NoArg,
               getattr(path, uploads, courseCache, remote, fetchOk))

ReadDir(P) ==
    \E path \in P, fetchOk \in BOOLEAN :
        Finish("readdir", path, NoArg,
               readdir(path, uploads, courseCache, remote, fetchOk))

Read(P, S, O) ==
    \E path \in P, size \in S, offset \in O, fetchOk \in BOOLEAN,
       docOk \in BOOLEAN :
        Finish("read", path, [size |-> size, offset |-> offset],
               read(path, size, offset, uploads, courseCache, docCache,
                    remote, fetchOk, docOk))

Create(P) ==
    \E path \in P, mode \in Modes, fetchOk \in BOOLEAN :
        LET res == create(path, mode, uploads, courseCache, remote, fetchOk)
        IN  /\ Cardinality(DOMAIN res.uploads) <= MaxPending
            /\ Finish("create", path, [mode |-> mode], res)

\* the write, and the history of the upload: the data written so far, while
\* every write came at the end of the buffer
Write(P, D, O) ==
    \E path \in P, data \in D, offset \in O :
        LET res == write(path, data, offset, uploads, courseCache, remote)
            seq == /\ uploads[path].sequential
                   /\ offset = Len(uploads[path].io.buf)
            ups == IF path \in DOMAIN uploads
                   THEN [res.uploads EXCEPT
                           ![path].sequential = seq,
                           ![path].written = IF seq THEN @ \o data ELSE <<>>]
                   ELSE res.uploads
        IN  /\ offset + Len(data) <= MaxLen
            /\ Finish("write", path, [len |-> Len(data), offset |-> offset],
                      [res EXCEPT !.uploads = ups])

Release(P) ==
    \E path \in P, postOk \in BOOLEAN :
        LET res == release(path, uploads, courseCache, remote, postOk)
        IN  /\ NextId(res.rem) <= MaxDocs + 1
            /\ Finish("release", path,
                      IF path \in DOMAIN uploads
                      THEN [written |-> uploads[path].written,
                            sequential |-> uploads[path].sequential,
                            course |-> uploads[path].course.slug]
                      ELSE NoArg,
                      res)

\* another user of the service adds a document to a course
RemoteAdd ==
    \E s \in Slugs :
        /\ out.op = "idle"
        /\ NextId(remote) <= MaxDocs
        /\ remote' = [remote EXCEPT ![s] =
               Append(@, DocumentPayload(NextId(remote), <<"other">>,
                                         <<"pdf">>, <<2>>))]
        /\ UNCHANGED <<uploads, courseCache, out, prevKids, newDocs, docCache,
                       mount, mt, probe>>

\* the host takes the outcome of the call
Return ==
    /\ out.op # "idle"
    /\ out' = Idle
    /\ UNCHANGED <<uploads, courseCache, remote, prevKids, newDocs, docCache,
                   mount, mt, probe>>

\* ---------------------------------------------------------------- threads
\* FUSE(...) of docfub.py is not given nothreads: the host runs each call
\* on a thread of its own.  The interpreter switches threads between two
\* operations on the mapping or on a buffer, never inside one, so a call is
\* a sequence of steps, one per such operation.  mt.uploads maps a path to
\* a DocumentUpload object (its index in mt.heap): an object lives on
\* after its entry is popped, held by the local variables of the calls.
\* The calls are on one path: a file being created in a course.
MtThreads == 1..MaxThreads

MtPath == PNewB

\* the data and offset arguments of the writes on threads
MtDatas == {<<1>>}

MtOffsets == 0..1

IdleThread ==
    [pc |-> "idle", op |-> "none", data |-> <<>>, offset |-> 0, upload |-> 0,
     target |-> 0, status |-> "ok", ret |-> 0, atPop |-> <<>>]

NoThreads ==
    [uploads |-> <<>>, heap |-> <<>>, threads |-> [t \in MtThreads |-> IdleThread],
     sent |-> <<>>, calls |-> 0]

\* leave the call on thread t
MtEnd(th, status, ret) ==
    [th EXCEPT !.pc = "idle", !.status = status, !.ret = ret]

MtStep(t, th, ups, heap) ==
    /\ mt' = [mt EXCEPT !.threads[t] = th, !.uploads = ups, !.heap = heap]
    /\ UNCHANGED <<callVars, mount, probe>>

\* a thread takes a call; the step is the first operation of the call
MtBegin(t, op, data, offset) ==
    [IdleThread EXCEPT !.op = op, !.data = data, !.offset = offset]

\* create (fs.py 201-210): the parent is found by walking the categories of
\* the tree; the store into the mapping is the one operation other threads
\* see
MtCreate(t) ==
    LET s == os_path_split(MtPath)
        parent == find_path(s[1], mt.uploads, courseCache, remote, TRUE)
        u == DocumentUpload_init(parent.obj, s[2])
        th == MtBegin(t, "create", <<>>, 0)
    IN  /\ mt.threads[t].pc = "idle"
        /\ mt.calls < MaxCalls
        /\ Len(mt.heap) < MaxObjects
        /\ parent.status = "ok" /\ is_course(parent.obj) /\ u.status = "ok"
        /\ mt' = [mt EXCEPT !.threads[t] = MtEnd(th, "ok", 3),
                             !.heap = Append(@, u.upload),
                             !.uploads = SetUpload(@, MtPath, Len(mt.heap) + 1),
                             !.calls = @ + 1]
        /\ UNCHANGED <<callVars, mount, probe>>

\* write, line 221: path in self.uploads
MtWriteCheck(t) ==
    \E data \in MtDatas, offset \in MtOffsets :
        LET th == MtBegin(t, "write", data, offset)
        IN  /\ mt.threads[t].pc = "idle"
            /\ mt.calls < MaxCalls
            /\ mt' = [mt EXCEPT
                         !.threads[t] = IF MtPath \in DOMAIN mt.uploads
                                        THEN [th EXCEPT !.pc = "w_lookup"]
                                        ELSE MtEnd(th, "ok", -1),
                         !.calls = @ + 1]
            /\ UNCHANGED <<callVars, mount, probe>>

\* write, line 222: upload = self.uploads[path]
MtWriteLookup(t) ==
    LET th == mt.threads[t]
    IN  /\ th.pc = "w_lookup"
        /\ MtStep(t,
                  IF MtPath \in DOMAIN mt.uploads
                  THEN [th EXCEPT !.pc = "w_size",
                                  !.upload = mt.uploads[MtPath]]
                  ELSE MtEnd(th, "KeyError", 0),
                  mt.uploads, mt.heap)

\* write, line 223: offset != upload.size
MtWriteSize(t) ==
    LET th == mt.threads[t]
    IN  /\ th.pc = "w_size"
        /\ MtStep(t,
                  [th EXCEPT !.pc =
                      IF th.offset # DocumentUpload_size(mt.heap[th.upload])
                      THEN "w_seek" ELSE "w_lookup2"],
                  mt.uploads, mt.heap)

\* write, line 224: upload.io.seek(offset)
MtWriteSeek(t) ==
    LET th == mt.threads[t]
    IN  /\ th.pc = "w_seek"
        /\ MtStep(t, [th EXCEPT !.pc = "w_lookup2"], mt.uploads,
                  [mt.heap EXCEPT ![th.upload].io = BytesIO_seek(@, th.offset)])

\* write, line 225: self.uploads[path], looked up once more
MtWriteLookup2(t) ==
    LET th == mt.threads[t]
    IN  /\ th.pc = "w_lookup2"
        /\ MtStep(t,
                  IF MtPath \in DOMAIN mt.uploads
                  THEN [th EXCEPT !.pc = "w_data",
                                  !.target = mt.uploads[MtPath]]
                  ELSE MtEnd(th, "KeyError", 0),
                  mt.uploads, mt.heap)

\* write, lines 225-226: .io.write(data), return len(data)
MtWriteData(t) ==
    LET th == mt.threads[t]
    IN  /\ th.pc = "w_data"
        /\ MtStep(t, MtEnd(th, "ok", Len(th.data)), mt.uploads,
                  [mt.heap EXCEPT ![th.target].io = BytesIO_write(@, th.data)])

\* release, line 216: path in self.uploads
MtReleaseCheck(t) ==
    LET th == MtBegin(t, "release", <<>>, 0)
    IN  /\ mt.threads[t].pc = "idle"
        /\ mt.calls < MaxCalls
        /\ mt' = [mt EXCEPT
                     !.threads[t] = IF MtPath \in DOMAIN mt.uploads
                                    THEN [th EXCEPT !.pc = "r_lookup"]
                                    ELSE MtEnd(th, "ok", 0),
                     !.calls = @ + 1]
        /\ UNCHANGED <<callVars, mount, probe>>

\* release, line 216: self.uploads[path]
MtReleaseLookup(t) ==
    LET th == mt.threads[t]
    IN  /\ th.pc = "r_lookup"
        /\ MtStep(t,
                  IF MtPath \in DOMAIN mt.uploads
                  THEN [th EXCEPT !.pc = "r_size",
                                  !.target = mt.uploads[MtPath]]
                  ELSE MtEnd(th, "KeyError", 0),
                  mt.uploads, mt.heap)

\* release, line 216: .size > 0
MtReleaseSize(t) ==
    LET th == mt.threads[t]
    IN  /\ th.pc = "r_size"
        /\ MtStep(t,
                  IF DocumentUpload_size(mt.heap[th.target]) > 0
                  THEN [th EXCEPT !.pc = "r_pop"]
                  ELSE MtEnd(th, "ok", 0),
                  mt.uploads, mt.heap)

\* release, line 217: upload = self.uploads.pop(path); atPop is history,
\* the buffer of the object at this moment
MtReleasePop(t) ==
    LET th == mt.threads[t]
    IN  /\ th.pc = "r_pop"
        /\ MtStep(t,
                  IF MtPath \in DOMAIN mt.uploads
                  THEN [th EXCEPT !.pc = "r_seek",
                                  !.upload = mt.uploads[MtPath],
                                  !.atPop = mt.heap[mt.uploads[MtPath]].io.buf]
                  ELSE MtEnd(th, "KeyError", 0),
                  IF MtPath \in DOMAIN mt.uploads
                  THEN PopUpload(mt.uploads, MtPath) ELSE mt.uploads,
                  mt.heap)

\* do_upload, line 154: self.io.seek(0)
MtReleaseSeek(t) ==
    LET th == mt.threads[t]
    IN  /\ th.pc = "r_seek"
        /\ MtStep(t, [th EXCEPT !.pc = "r_post"], mt.uploads,
                  [mt.heap EXCEPT ![th.upload].io = BytesIO_seek(@, 0)])

\* do_upload, lines 155-157: add_document reads the buffer from its cursor
\* to its end into the body of the request and posts it
MtReleasePost(t) ==
    \E postOk \in BOOLEAN :
        LET th == mt.threads[t]
            upload == mt.heap[th.upload]
            d == add_document(courseCache, remote, upload.course.slug,
                              upload.name, join_dot(upload.name, upload.ext),
                              upload.io, postOk)
        IN  /\ th.pc = "r_post"
            /\ NextId(d.rem) <= MaxDocs + 1
            /\ mt' = [mt EXCEPT
                         !.threads[t] = MtEnd(th, d.status, 0),
                         !.heap[th.upload].io =
                             BytesIO_seek(@, Len(upload.io.buf)),
                         !.sent = Append(@, [obj |-> th.upload,
                                             body |-> d.post.body,
                                             atPop |-> th.atPop,
                                             ok |-> postOk])]
            /\ courseCache' = d.cache
            /\ remote' = d.rem
            /\ UNCHANGED <<uploads, out, prevKids, newDocs, docCache, mount,
                           probe>>

NextMT ==
    \E t \in MtThreads :
        \/ MtCreate(t)
        \/ MtWriteCheck(t)
        \/ MtWriteLookup(t)
        \/ MtWriteSize(t)
        \/ MtWriteSeek(t)
        \/ MtWriteLookup2(t)
        \/ MtWriteData(t)
        \/ MtReleaseCheck(t)
        \/ MtReleaseLookup(t)
        \/ MtReleaseSize(t)
        \/ MtReleasePop(t)
        \/ MtReleaseSeek(t)
        \/ MtReleasePost(t)

\* ------------------------------------------------------------------ probes
\* Node(serialized, fs) for any payload the service may send, and one of
\* its properties or methods applied to it.
NoProbe == [payload |-> Tree, op |-> "none", status |-> "ok", ret |-> NoRet]

\* the keys that decide the kind of a payload
KindKeys == {"slug", "votes", "children", "courses"}

\* payloads with any of the keys that decide the kind; one with votes has
\* the other keys of a document too
ProbePayloads ==
    {Payload({"id", "name"} \cup K
                 \cup (IF "votes" \in K THEN {"file_type", "file_size"} ELSE {}),
             name, SlugA, <<Dot, "pdf">>, 1, 3, <<>>, <<CourseB>>, <<>>) :
         K \in SUBSET KindKeys, name \in {<<"x">>, <<"y">>}}

\* the kinds a payload matches
KindsOf(serialized) ==
    {k \in {"category", "course", "document"} :
        \/ k = "category" /\ is_category(serialized)
        \/ k = "course" /\ is_course(serialized)
        \/ k = "document" /\ is_document(serialized)}

Probed(op, status, ret) ==
    /\ probe.op = "none"
    /\ probe' = [probe EXCEPT !.op = op, !.status = status, !.ret = ret]

\* node.name
ProbeName ==
    /\ Probed("name", "ok", [name |-> Node_name(probe.payload)])
    /\ UNCHANGED <<callVars, mount, mt>>

\* node.getattr()
ProbeGetattr ==
    /\ Probed("getattr", "ok", [attrs |-> Node_getattr(probe.payload)])
    /\ UNCHANGED <<callVars, mount, mt>>

\* node.children
ProbeChildren ==
    \E fetchOk \in BOOLEAN :
        LET c == Node_children(probe.payload, courseCache, remote, fetchOk)
        IN  /\ Probed("children", c.status, [names |-> DictKeys(c.dict)])
            /\ courseCache' = c.cache
            /\ UNCHANGED <<uploads, remote, out, prevKids, newDocs, docCache,
                           mount, mt>>

\* node.content
ProbeContent ==
    \E docOk \in BOOLEAN :
        LET c == Node_content(probe.payload, docCache, remote, docOk)
        IN  /\ Probed("content", c.status, [bytes |-> c.content])
            /\ docCache' = c.docs
            /\ UNCHANGED <<uploads, courseCache, remote, out, prevKids,
                           newDocs, mount, mt>>

Init ==
    /\ uploads = <<>>
    /\ courseCache = [s \in Slugs |-> NotCached]
    /\ remote = [s \in Slugs |->
                   IF s = SlugA
                   THEN <<DocumentPayload(1, <<"notes">>, <<"pdf">>,
                                          <<1, 2, 1>>)>>
                   ELSE <<>>]
    /\ out = Idle
    /\ prevKids = [s \in Slugs |-> NoResult]
    /\ newDocs = [s \in Slugs |-> {}]
    /\ docCache = [i \in DocIds |-> NotCached]
    /\ mount = Mounted
    /\ mt = NoThreads
    /\ probe = NoProbe

\* every call on every path, the writes being one byte at the start
Next ==
    \/ GetAttr(Paths)
    \/ ReadDir(Paths)
    \/ Read(Paths, Largest, AtStart)
    \/ Create(Paths)
    \/ Write(Paths, OneByte, AtStart)
    \/ Release(Paths)
    \/ Return
    \/ RemoteAdd

Spec == Init /\ [][Next]_vars

\* every write, on the files being created
NextIO ==
    \/ GetAttr(UploadPaths)
    \/ ReadDir(UploadPaths)
    \/ Create(UploadPaths)
    \/ Write(UploadPaths, Datas, Offsets)
    \/ Release(UploadPaths)
    \/ Return
    \/ RemoteAdd

SpecIO == Init /\ [][NextIO]_vars

\* the constructor, run against any answer of the service
Mount ==
    \E tree \in TreeResponses, treeOk \in BOOLEAN :
        /\ mount.state = "mounting"
        /\ mount' = DochubFileSystem_init(mount, tree, treeOk)
        /\ UNCHANGED <<callVars, mt, probe>>

InitMount ==
    /\ uploads = <<>>
    /\ courseCache = [s \in Slugs |-> NotCached]
    /\ remote = [s \in Slugs |->
                   IF s = SlugA
                   THEN <<DocumentPayload(1, <<"notes">>, <<"pdf">>,
                                          <<1, 2, 1>>)>>
                   ELSE <<>>]
    /\ out = Idle
    /\ prevKids = [s \in Slugs |-> NoResult]
    /\ newDocs = [s \in Slugs |-> {}]
    /\ docCache = [i \in DocIds |-> NotCached]
    /\ mount = Mounting
    /\ mt = NoThreads
    /\ probe = NoProbe

\* the mount, then every call on the paths of one course
NextMount ==
    \/ Mount
    \/ GetAttr(MountPaths)
    \/ ReadDir(MountPaths)
    \/ Read(MountPaths, Largest, AtStart)
    \/ Create(MountPaths)
    \/ Write(MountPaths, OneByte, AtStart)
    \/ Release(MountPaths)
    \/ Return

SpecMount == InitMount /\ [][NextMount]_vars

InitNode ==
    /\ uploads = <<>>
    /\ courseCache = [s \in Slugs |-> NotCached]
    /\ remote = [s \in Slugs |->
                   IF s = SlugA
                   THEN <<DocumentPayload(1, <<"notes">>, <<"pdf">>,
                                          <<1, 2, 1>>)>>
                   ELSE <<>>]
    /\ out = Idle
    /\ prevKids = [s \in Slugs |-> NoResult]
    /\ newDocs = [s \in Slugs |-> {}]
    /\ docCache = [i \in DocIds |-> NotCached]
    /\ mount = Mounted
    /\ mt = NoThreads
    /\ \E payload \in ProbePayloads :
          probe = [NoProbe EXCEPT !.payload = payload]

NextNode ==
    \/ ProbeName
    \/ ProbeGetattr
    \/ ProbeChildren
    \/ ProbeContent

\* a Node of any payload, and what it answers
SpecNode == InitNode /\ [][NextNode]_vars

\* every read, of the documents of a course
NextRead ==
    \/ Read(ReadPaths, ReadSizes, ReadOffsets)
    \/ ReadDir({PCourseA})
    \/ Return
    \/ RemoteAdd

SpecRead == Init /\ [][NextRead]_vars

\* create, write and release on one path, dispatched on threads
SpecMT == Init /\ [][NextMT]_vars

\* ------------------------------------------------------------ properties
Range(f) == {f[i] : i \in DOMAIN f}

\* the last call made no course fetch that failed
Fetched == \A i \in 1..Len(out.kids) : out.kids[i].served # "failed"

\* the slug of the course whose directory holds path
ParentSlug(path) ==
    NodeAt(os_path_split(path)[1], View(courseCache, remote))[1].slug

\* C1: a release of a file created under a course, whose writes each came
\* at the end of the buffer and wrote at least one byte in all, makes
\* exactly one upload call, to the slug of the parent course, carrying the
\* written data in write order.
C1_SequentialWritesUploadedOnce ==
    (/\ out.op = "release"
     /\ out.had
     /\ out.arg.sequential
     /\ Len(out.arg.written) > 0)
    => /\ Len(out.posts) = 1
       /\ out.posts[1].course = ParentSlug(out.path)
       /\ out.posts[1].body = out.arg.written

C1_Witness ==
    /\ out.op = "release"
    /\ out.had
    /\ out.arg.sequential
    /\ out.arg.written = <<1, 2>>
    /\ Len(out.posts) = 1
    /\ out.posts[1].course = SlugB

\* C2: a release of a freshly created file, to which no byte was written,
\* makes no upload call and removes the entry of its path from uploads.
C2_EmptyReleaseRemovesEntry ==
    (/\ out.op = "release"
     /\ out.had
     /\ out.arg.sequential
     /\ out.arg.written = <<>>)
    => /\ out.posts = <<>>
       /\ out.path \notin DOMAIN uploads

\* C3: no path is at once a key of uploads and the path of a node the walk
\* of the tree reaches.
C3_PathNamesOneObject ==
    \A p \in DOMAIN uploads : NodeAt(p, View(courseCache, remote)) = <<>>

\* C4: the first children() of a course after a successful upload to it is
\* not served from the cache: it fetches the course from the service, and
\* what it returns includes the uploaded document.
C4_ListingAfterUploadRefetches ==
    \A i \in 1..Len(out.kids) :
        out.kids[i].fresh # {}
        => /\ out.kids[i].served # "cache"
           /\ out.kids[i].served = "remote"
              => out.kids[i].fresh \subseteq Range(out.kids[i].names)

C4_Witness ==
    \E i \in 1..Len(out.kids) :
        /\ out.kids[i].fresh # {}
        /\ out.kids[i].served = "remote"
        /\ out.kids[i].fresh \subseteq Range(out.kids[i].names)

\* C5: a children() of a course that follows another one with no successful
\* upload in between returns the same names and is served from the cache,
\* whatever the service holds by then and whatever uploads failed.
C5_ListingTwiceIsStable ==
    \A i \in 1..Len(out.kids) :
        out.kids[i].prev # NoResult
        => /\ out.kids[i].served = "cache"
           /\ out.kids[i].names = out.kids[i].prev[1]

C5_Witness ==
    \E i \in 1..Len(out.kids) :
        /\ out.kids[i].prev # NoResult
        /\ out.kids[i].served = "cache"
        /\ Len(remote[out.kids[i].slug]) > Len(out.kids[i].names)

\* C6: getattr of a path that is no key of uploads and that the walk of the
\* tree does not reach fails with ENOENT.
C6_StatOfMissingPathIsENOENT ==
    (out.op = "getattr" /\ out.target = "none" /\ Fetched)
    => out.status = "ENOENT"

\* C7: readdir of a path that names a document or a Pending Upload fails
\* with EINVAL; readdir of a category or a course returns ".", ".." and the
\* names of the children.
C7_ListingOfFileIsEINVAL ==
    (out.op = "readdir" /\ Fetched)
    => /\ out.target \in {"document", "upload"} => out.status = "EINVAL"
       /\ out.target \in {"category", "course"}
          => /\ out.status = "ok"
             /\ SubSeq(out.ret.names, 1, 2) = <<(<<Dot>>), (<<Dot, Dot>>)>>
             /\ Range(SubSeq(out.ret.names, 3, Len(out.ret.names)))
                = {Node_name(k) :
                     k \in Range(Kids(NodeAt(out.path,
                                             View(courseCache, remote))[1],
                                      View(courseCache, remote)))}

\* C8 as stated: a write to a path with no Pending Upload fails with the
\* invalid error (EINVAL).
C8_WriteWithoutUploadIsEINVAL ==
    (out.op = "write" /\ ~out.had) => out.status = "EINVAL"

\* C8, amended: a write to a path with no Pending Upload raises nothing and
\* returns -1, leaving the mapping, the cache and the service unchanged; a
\* write to a Pending Upload returns the length of its data.
C8_WriteReturnsLenOrMinusOne ==
    out.op = "write"
    => /\ out.status = "ok"
       /\ out.had => out.ret = IntRet(out.arg.len)
       /\ ~out.had => out.ret = IntRet(-1) /\ out.changed = {}

C8_Witness ==
    /\ out.op = "write"
    /\ ~out.had
    /\ out.ret = IntRet(-1)
    /\ out.arg.len > 0

\* C9, for the modes of a regular file: create under a course registers an
\* empty Pending Upload at the path and returns the handle, whatever the
\* filename; create under anything else fails and leaves uploads unchanged.
C9_CreateUnderCourseRegisters ==
    (out.op = "create" /\ HasIFREG(out.arg.mode) /\ Fetched)
    => IF out.parent = "course"
       THEN /\ out.status = "ok"
            /\ out.ret = IntRet(3)
            /\ out.path \in DOMAIN uploads
            /\ uploads[out.path].io = [buf |-> <<>>, pos |-> 0]
       ELSE /\ out.status # "ok"
            /\ "uploads" \notin out.changed

\* C10: a release that finds a Pending Upload of nonzero size removes its
\* entry whether the upload call succeeds or fails, and makes one upload
\* call only.
C10_ReleaseRemovesEntryEitherWay ==
    (out.op = "release" /\ out.had /\ out.size > 0)
    => /\ out.path \notin DOMAIN uploads
       /\ Len(out.posts) = 1

C10_Witness ==
    /\ out.op = "release"
    /\ out.had
    /\ out.size > 0
    /\ out.status = "HTTPError"
    /\ ~out.posts[1].ok
    /\ out.path \notin DOMAIN uploads

\* C11: with calls dispatched on threads, the body of every upload call is
\* the buffer of the object as it was when release popped its entry, and no
\* write ends with the KeyError of an entry that vanished after the
\* membership test.
C11_WriteAndReleaseSerialized ==
    /\ \A i \in 1..Len(mt.sent) : mt.sent[i].body = mt.sent[i].atPop
    /\ \A t \in MtThreads :
          mt.threads[t].op = "write" => mt.threads[t].status # "KeyError"

\* C18: no DocumentUpload object is handed to add_document twice, however
\* the release calls on its path interleave.
C18_ObjectUploadedAtMostOnce ==
    \A i, j \in 1..Len(mt.sent) :
        mt.sent[i].obj = mt.sent[j].obj => i = j

\* two releases passed the membership test for the same entry: one popped
\* and uploaded the object, the other found the entry gone
C18_Witness ==
    \E t, u \in MtThreads :
        /\ mt.threads[t].op = "release"
        /\ mt.threads[t].pc = "idle"
        /\ mt.threads[t].status = "KeyError"
        /\ mt.threads[u].op = "release"
        /\ mt.threads[u].pc = "idle"
        /\ mt.threads[u].status \in {"ok", "HTTPError"}
        /\ Len(mt.sent) = 1

\* C12: a read of a path that names a document, with size and offset at
\* least 0, returns content(D)[offset : offset+size] clipped at the end of
\* the content, and the empty result for an offset at or past the end; it
\* raises nothing, unless a request to the service failed.
C12_ReadReturnsWindow ==
    (out.op = "read" /\ out.target = "document" /\ out.status # "HTTPError")
    => LET n == Max(0, Min(out.arg.size, Len(out.content) - out.arg.offset))
       IN  /\ out.status = "ok"
           /\ out.ret.bytes = [i \in 1..n |-> out.content[out.arg.offset + i]]
           /\ out.arg.offset >= Len(out.content) => out.ret.bytes = <<>>

\* a read clipped at the end of the content
C12_Witness ==
    /\ out.op = "read"
    /\ out.target = "document"
    /\ out.status = "ok"
    /\ out.arg.offset > 0
    /\ out.ret.bytes # <<>>
    /\ Len(out.ret.bytes) < out.arg.size

\* C13: the constructor ends mounted only if the get_tree request succeeded
\* and answered with exactly one entry, which it keeps as the root; it
\* aborts otherwise.  get_tree is called once: whatever getattr, readdir,
\* read, create, write and release calls follow, the count stays at one.
C13_MountNeedsOneRootFetchedOnce ==
    /\ mount.state = "mounted"
       => /\ mount.ok
          /\ mount.entries = 1
          /\ mount.tree = <<Tree>>
    /\ (mount.state # "mounting" /\ ~(mount.ok /\ mount.entries = 1))
       => mount.state = "aborted"
    /\ mount.state # "mounting" => mount.fetches = 1
    /\ out.op # "idle" => mount.state = "mounted" /\ mount.fetches = 1

\* mounted, and a release has uploaded a file since
C13_Witness ==
    /\ mount.state = "mounted"
    /\ mount.fetches = 1
    /\ out.op = "release"
    /\ Len(out.posts) = 1

\* C14: every call of getattr, readdir, read, create, write and release
\* either returns or fails with a host error code (ENOENT, EINVAL, or EIO
\* for any other failure); no other exception leaves the call.
C14_NoRawException ==
    out.status \in {"ok", "ENOENT", "EINVAL", "EIO"}

\* C15: a payload that matches no kind, or more than one kind, is refused
\* with a malformed-entity error by name, getattr, children and content.
C15_ClassifyExactlyOne ==
    (probe.op # "none" /\ Cardinality(KindsOf(probe.payload)) # 1)
    => probe.status = "MalformedEntity"

\* C16: the size of a Pending Upload is the number of bytes its buffer
\* holds: in uploads at every instant, in what getattr reports, and in what
\* release decides on, so that a release of a buffer that holds a byte
\* makes an upload call.
C16_SizeIsBufferLength ==
    /\ \A p \in DOMAIN uploads :
          DocumentUpload_size(uploads[p]) = Len(uploads[p].io.buf)
    /\ (out.op = "getattr" /\ out.had)
       => out.ret.attrs.st_size = Len(out.buf)
    /\ (out.op = "release" /\ out.had /\ Len(out.buf) > 0)
       => Len(out.posts) = 1

\* C17 as stated: any write at an offset beyond the end of the buffer is
\* accepted and leaves the gap between the old end and the offset filled
\* with zero bytes.
C17_AnyGapWriteZeroFills ==
    (out.op = "write" /\ out.had /\ out.arg.offset > Len(out.buf))
    => /\ out.status = "ok"
       /\ Len(uploads[out.path].io.buf) = out.arg.offset + out.arg.len
       /\ \A i \in (Len(out.buf) + 1)..out.arg.offset :
             uploads[out.path].io.buf[i] = 0

\* C17, amended: a write of at least one byte at an offset beyond the end
\* of the buffer is accepted, returns the length of its data, keeps what the
\* buffer held and fills the gap between the old end and the offset with
\* zero bytes (a write of no data leaves the buffer as it is); an upload
\* call carries the whole buffer, zero bytes included.
C17_GapWriteZeroFills ==
    /\ (out.op = "write" /\ out.had /\ out.arg.offset > Len(out.buf))
       => /\ out.status = "ok"
          /\ out.ret = IntRet(out.arg.len)
          /\ IF out.arg.len > 0
             THEN LET b == uploads[out.path].io.buf
                  IN  /\ Len(b) = out.arg.offset + out.arg.len
                      /\ SubSeq(b, 1, Len(out.buf)) = out.buf
                      /\ \A i \in (Len(out.buf) + 1)..out.arg.offset : b[i] = 0
             ELSE uploads[out.path].io.buf = out.buf
    /\ (out.op = "release" /\ out.posts # <<>>)
       => out.posts[1].body = out.buf

\* an upload call that carries the zero byte of a gap before the data
C17_Witness ==
    /\ out.op = "release"
    /\ out.had
    /\ Len(out.posts) = 1
    /\ out.posts[1].body = <<0, 1>>

\* C19: a release whose upload call succeeds leaves the get_course cache
\* empty for every course, so that the next children() of any course asks
\* the service; one whose upload call fails leaves that cache as it was;
\* neither touches the get_document cache.  A children() served from the
\* cache follows a children() of that course with no successful upload, to
\* any course, in between.
C19_UploadEvictsEveryCourse ==
    /\ (out.op = "release" /\ out.posts # <<>>)
       => /\ out.posts[1].ok => \A s \in Slugs : courseCache[s] = NotCached
          /\ ~out.posts[1].ok => "cache" \notin out.changed
          /\ "docs" \notin out.changed
    /\ \A i \in 1..Len(out.kids) :
          out.kids[i].served = "cache" => out.kids[i].prev # NoResult

\* an upload to cs101 that evicted the cached page of cs102 and left the
\* cached content of a document
C19_Witness ==
    /\ out.op = "release"
    /\ Len(out.posts) = 1
    /\ out.posts[1].ok
    /\ out.posts[1].course = SlugA
    /\ SlugB \in out.cached
    /\ courseCache[SlugB] = NotCached
    /\ docCache[1] # NotCached

====
